---- MODULE Spec2Model ----
(***************************************************************************)
(* Railway traffic optimizer: the minute-stepped RailwaySimulation         *)
(* (src/backend/simulation.py) and the AsyncSimulation with its CP-SAT     *)
(* precedence Optimizer (src/rt_simulation.py), and the route-based        *)
(* Simulator (src/delhi_folium_sim.py).                                    *)
(*                                                                         *)
(* Units: lengths and positions are millimetres (so the code's 1e-3 m      *)
(* tolerance is 1), speeds are metres/second, optimizer times are          *)
(* milliseconds.  The route-based Simulator has its own units: tenths of   *)
(* a second, centimetres and centimetres/second.                           *)
(***************************************************************************)
EXTENDS Integers, Sequences, FiniteSets, TLC

VARIABLES
    trains,        \* RailwaySimulation.trains: id -> Train
    rsPre,         \* registry as it was when the last operation began
    rsMid,         \* registry right after _apply_decisions of the last tick
    rsConflicts,   \* result of _find_conflicts in the last tick
    rsDecisions,   \* result of the optimizer's decide in the last tick
    rsOp,          \* last operation on the RailwaySimulation
    rsReq,         \* the body of the last POST /delay, when that was the operation
    rsOut,         \* what the last operation returned
    rsRepeat,      \* the last operation was a read that followed the same read
    rtTrains,      \* AsyncSimulation.trains: train_id -> Train
    rtRunning,     \* AsyncSimulation._running
    rtTask,        \* AsyncSimulation._task: "none", "alive", "done" or "failed"
    rtNow,         \* simulated time, in ticks of tick_seconds
    rtEvt,         \* the Event, when the last operation was inject_event
    rtRet,         \* what the last inject_event returned
    rtEvents,      \* number of inject_event calls so far
    plan,          \* the last plan build_and_solve returned
    planAt,        \* rtNow when that plan was computed
    rtPlans,       \* number of plans build_and_solve returned so far
    dTrains,       \* Simulator.trains: the list of trains, in list order
    dTime,         \* Simulator.time_s
    dTickS,        \* Simulator.tick_s; 0 while no Simulator is constructed
    lpRunning,     \* RailwaySimulation._running
    lpPc,          \* where the task of RailwaySimulation._loop stands
    lpStop,        \* the last call of stop(): "idle", "waiting" or "returned"
    lpTicks,       \* _step_one_minute calls completed by the loop
    lpConflicts,   \* conflicts, local of _step_one_minute
    lpDecisions,   \* decisions, local of _step_one_minute
    lpTrace,       \* the steps the current iteration has executed, in order
    lpQueue,       \* RailwaySimulation._updates: the messages not yet taken
    lpSent,        \* every message put on _updates so far, in order
    lpPending,     \* put tasks made by asyncio.create_task, not yet run
    lpSubs,        \* consumers that hold the queue returned by updates()
    lpSubAt,       \* consumer -> number of messages sent when it subscribed
    lpRecv,        \* consumer -> messages it has taken, in order
    lpOp,          \* last operation on the looping simulation
    lpCmds,        \* commands handled so far
    tkRunning,     \* _running of a simulation whose start and stop interleave
    tkTask,        \* _task: the number of the task last created, 0 for None
    tkPc,          \* task -> "created", "sleep" or "done"
    tkSince,       \* task -> ticks it has executed since the last start
    tkWait,        \* the tasks that calls of stop() are waiting for
    tkOp           \* last operation on this simulation

rsVars == <<trains, rsPre, rsMid, rsConflicts, rsDecisions, rsOp,
           rsReq, rsOut, rsRepeat>>

rtVars == <<rtTrains, rtRunning, rtTask, rtNow, rtEvt, rtRet, rtEvents,
           plan, planAt, rtPlans>>

dVars == <<dTrains, dTime, dTickS>>

lpVars == <<lpRunning, lpPc, lpStop, lpTicks, lpConflicts, lpDecisions, lpTrace,
           lpQueue, lpSent, lpPending, lpSubs, lpSubAt, lpRecv, lpOp, lpCmds>>

tkVars == <<tkRunning, tkTask, tkPc, tkSince, tkWait, tkOp>>

vars == <<rsVars, rtVars, dVars, lpVars, tkVars>>

-----------------------------------------------------------------------------
(* Bounds of the model *)

\* ticks are taken while every accumulated delay is below this
MaxDelay == 3
\* iterations of AsyncSimulation._loop
MaxRtTicks == 3
\* calls of AsyncSimulation.inject_event
MaxEvents == 1
\* plans returned by Optimizer.build_and_solve
MaxPlans == 1
\* steps of the route-based Simulator are taken while time_s is below this
\* (tenths of a second)
MaxTime == 80
\* iterations of RailwaySimulation._loop
MaxLoopTicks == 2
\* commands handled while the loop of the RailwaySimulation is observed
MaxCmds == 1
\* tasks created by start() while start and stop interleave
MaxTasks == 3
\* ticks a task executes after a start
MaxTaskTicks == 2

-----------------------------------------------------------------------------
(* Program constants *)

\* 1e-3 m, the end-of-edge tolerance, in millimetres
Eps == 1
\* seconds of progress per simulated minute
MinuteS == 60
\* millimetres per metre
MmPerM == 1000

-----------------------------------------------------------------------------
(* The track network: an immutable directed graph supplied at startup.     *)
(* graph[u][v][0] is the first parallel edge; max_speed (km/h) is optional *)
(* and modelled as a sequence of length 0 or 1.                            *)

Nodes == {"A", "B", "C", "D"}

Graph ==
    (<<"A", "B">> :> [length |-> 2400000, max_speed |-> <<>>]) @@
    (<<"B", "C">> :> [length |-> 1,       max_speed |-> <<>>]) @@
    (<<"C", "D">> :> [length |-> 1200000, max_speed |-> <<72>>]) @@
    (<<"B", "D">> :> [length |-> 0,       max_speed |-> <<>>]) @@
    (<<"D", "A">> :> [length |-> 1200000, max_speed |-> <<>>]) @@
    (<<"D", "C">> :> [length |-> 1200001, max_speed |-> <<36>>])

HasEdge(u, v) == <<u, v>> \in DOMAIN Graph

\* RailwaySimulation._edge_length
EdgeLength(u, v) ==
    IF u = "" \/ v = "" THEN 0
    ELSE IF HasEdge(u, v) THEN Graph[<<u, v>>].length
    ELSE 0

-----------------------------------------------------------------------------
(* Trains of the RailwaySimulation *)

TrainIds == {"T1", "T2"}

Routes == { <<"A", "B", "C", "D">>,
            <<"A", "B", "D", "A">>,
            <<"A", "C">>,
            <<"C", "D">>,
            <<"D", "C", "A">> }

Speeds == {20, 40}

Priorities == {1, 2}

NoEdge == <<>>

\* dataclass Train with its defaults
NewTrain(route, speed, prio) ==
    [ type         |-> "express",
      speed_mps    |-> speed,
      priority     |-> prio,
      position     |-> 0,
      route        |-> route,
      current_edge |-> NoEdge,
      delay_min    |-> 0,
      status       |-> "stopped" ]

Min(a, b) == IF a <= b THEN a ELSE b
Max(a, b) == IF a >= b THEN a ELSE b

\* list.index(u) if u in list else -1, zero-based
IndexOf(route, u) ==
    IF \E i \in 1..Len(route) : route[i] = u
    THEN (CHOOSE i \in 1..Len(route) :
             route[i] = u /\ \A j \in 1..(i - 1) : route[j] # u) - 1
    ELSE -1

\* min(t.speed_mps, float(vmax_kmh) / 3.6), or t.speed_mps without a limit
EffectiveSpeed(speed, e) ==
    IF Graph[e].max_speed = <<>> THEN speed
    ELSE Min(speed, (Graph[e].max_speed[1] * 10) \div 36)

\* The end-of-edge part without its has_edge test: the train is put on the
\* following pair of route nodes whether or not the network has that segment.
\* C15 depends on the test and fails with this one.
AdvanceAtEndUnchecked(t, u) ==
    LET idx == IndexOf(t.route, u) IN
    IF idx >= 0 /\ idx + 2 < Len(t.route)
    THEN [t EXCEPT !.current_edge = <<t.route[idx + 2], t.route[idx + 3]>>,
                   !.position = 0,
                   !.status = "running"]
    ELSE [t EXCEPT !.status = "stopped"]

\* The end-of-edge part that puts the train on the next segment and leaves
\* its status as it was.  C34 depends on the status being set and fails
\* with this one.
AdvanceAtEndKeepStatus(t, u) ==
    LET idx == IndexOf(t.route, u) IN
    IF idx >= 0 /\ idx + 2 < Len(t.route)
       /\ HasEdge(t.route[idx + 2], t.route[idx + 3])
    THEN [t EXCEPT !.current_edge = <<t.route[idx + 2], t.route[idx + 3]>>,
                   !.position = 0]
    ELSE [t EXCEPT !.status = "stopped"]

\* The end-of-edge part of _advance_train_position (lines 123-134)
AdvanceAtEnd(t, u) ==
    LET idx == IndexOf(t.route, u) IN
    IF idx >= 0 /\ idx + 2 < Len(t.route)
       /\ HasEdge(t.route[idx + 2], t.route[idx + 3])
    THEN [t EXCEPT !.current_edge = <<t.route[idx + 2], t.route[idx + 3]>>,
                   !.position = 0,
                   !.status = "running"]
    ELSE [t EXCEPT !.status = "stopped"]

\* The movement on an edge without the cap at the segment's length: what is
\* left of the minute's progress at the end of the segment is carried over
\* onto the next one.  C19 depends on the cap and fails with this one.
AdvanceOnEdgeCarry(t) ==
    LET u == t.current_edge[1]
        v == t.current_edge[2]
        length == EdgeLength(u, v)
    IN
    IF length <= 0 THEN [t EXCEPT !.status = "stopped"]
    ELSE
        LET vmax_mps == EffectiveSpeed(t.speed_mps, <<u, v>>)
            progress == Max(0, vmax_mps) * MinuteS * MmPerM
            surplus == Max(0, t.position + progress - length)
            moved == [t EXCEPT !.position = Min(length, t.position + progress)]
            next == AdvanceAtEnd(moved, u)
        IN
        IF moved.position >= length - Eps
        THEN IF next.current_edge # t.current_edge
             THEN [next EXCEPT !.position = surplus]
             ELSE next
        ELSE moved

\* The part of _advance_train_position after the first edge is set (113-134)
AdvanceOnEdge(t) ==
    LET u == t.current_edge[1]
        v == t.current_edge[2]
        length == EdgeLength(u, v)
    IN
    IF length <= 0 THEN [t EXCEPT !.status = "stopped"]
    ELSE
        LET vmax_mps == EffectiveSpeed(t.speed_mps, <<u, v>>)
            progress == Max(0, vmax_mps) * MinuteS * MmPerM
            moved == [t EXCEPT !.position = Min(length, t.position + progress)]
        IN
        IF moved.position >= length - Eps
        THEN AdvanceAtEnd(moved, u)
        ELSE moved

\* RailwaySimulation._advance_train_position
AdvanceTrainPosition(t) ==
    IF t.current_edge = NoEdge
    THEN IF Len(t.route) >= 2 /\ HasEdge(t.route[1], t.route[2])
         THEN AdvanceOnEdge([t EXCEPT !.current_edge = <<t.route[1], t.route[2]>>,
                                      !.position = 0,
                                      !.status = "running"])
         ELSE [t EXCEPT !.status = "stopped"]
    ELSE AdvanceOnEdge(t)

-----------------------------------------------------------------------------
(* Conflict detection and decisions *)

\* The edge a train requests next in _find_conflicts, or NoEdge
RequestedEdge(t) ==
    IF t.current_edge = NoEdge
    THEN IF Len(t.route) >= 2 /\ HasEdge(t.route[1], t.route[2])
         THEN <<t.route[1], t.route[2]>>
         ELSE NoEdge
    ELSE
        LET u == t.current_edge[1]
            v == t.current_edge[2]
            idx == IndexOf(t.route, u)
        IN
        IF t.position >= EdgeLength(u, v) - Eps
           /\ idx >= 0 /\ idx + 2 < Len(t.route)
           /\ HasEdge(t.route[idx + 2], t.route[idx + 3])
        THEN <<t.route[idx + 2], t.route[idx + 3]>>
        ELSE NoEdge

\* Conflict detection that reports every requested segment, also with one
\* requester.  C24 depends on the test for more than one and fails with this.
FindConflictsAnyRequester(reg) ==
    LET requesters(e) == {id \in DOMAIN reg : RequestedEdge(reg[id]) = e}
    IN { [edge |-> e, trains |-> requesters(e)] :
            e \in {x \in DOMAIN Graph : Cardinality(requesters(x)) > 0} }

\* RailwaySimulation._find_conflicts
FindConflicts(reg) ==
    LET requesters(e) == {id \in DOMAIN reg : RequestedEdge(reg[id]) = e}
    IN { [edge |-> e, trains |-> requesters(e)] :
            e \in {x \in DOMAIN Graph : Cardinality(requesters(x)) > 1} }

\* f"{u}->{v}", the key of a decision
EdgeKey(u, v) == u \o "->" \o v

\* The winner among the contenders: lowest priority weight, ties by identifier
Winner(reg, ids) ==
    CHOOSE w \in ids :
        \A o \in ids :
            \/ reg[w].priority < reg[o].priority
            \/ reg[w].priority = reg[o].priority
               /\ (w = o \/ (w = "T1") \/ (w = "T2" /\ o # "T1"))

\* ConflictDecisionOptimizer.decide: decision key -> winning train
Decide(conflicts, reg) ==
    [ k \in {EdgeKey(c.edge[1], c.edge[2]) : c \in conflicts} |->
        LET c == CHOOSE x \in conflicts : EdgeKey(x.edge[1], x.edge[2]) = k
        IN Winner(reg, c.trains) ]

\* The condition of _apply_decisions without its test for the winner.  C35
\* depends on the winner being left alone and fails with this one.
HeldBackWithWinner(t, id, decisions) ==
    /\ t.current_edge # NoEdge
    /\ LET u == t.current_edge[1]
           v == t.current_edge[2]
           idx == IndexOf(t.route, u)
       IN
       /\ t.position >= EdgeLength(u, v) - Eps
       /\ idx >= 0 /\ idx + 2 < Len(t.route)
       /\ \E k \in DOMAIN decisions :
             EdgeKey(t.route[idx + 2], t.route[idx + 3]) = k

\* Whether _apply_decisions holds train id back under these decisions
HeldBack(t, id, decisions) ==
    /\ t.current_edge # NoEdge
    /\ LET u == t.current_edge[1]
           v == t.current_edge[2]
           idx == IndexOf(t.route, u)
       IN
       /\ t.position >= EdgeLength(u, v) - Eps
       /\ idx >= 0 /\ idx + 2 < Len(t.route)
       /\ \E k \in DOMAIN decisions :
             /\ EdgeKey(t.route[idx + 2], t.route[idx + 3]) = k
             /\ id # decisions[k]

\* RailwaySimulation._apply_decisions
ApplyDecisions(reg, decisions) ==
    [ id \in DOMAIN reg |->
        IF HeldBack(reg[id], id, decisions)
        THEN [reg[id] EXCEPT !.delay_min = @ + 1, !.status = "held"]
        ELSE reg[id] ]

\* The loop over the trains in _step_one_minute that drops the trains that
\* have stopped.  C22 depends on the loop keeping every train and fails with
\* this one.
AdvanceAllDropStopped(reg) ==
    LET moved == [ id \in DOMAIN reg |-> AdvanceTrainPosition(reg[id]) ]
        kept == { id \in DOMAIN reg : moved[id].status # "stopped" }
    IN [ id \in kept |-> moved[id] ]

\* The loop over the trains in _step_one_minute (lines 192-194)
AdvanceAll(reg) == [ id \in DOMAIN reg |-> AdvanceTrainPosition(reg[id]) ]

-----------------------------------------------------------------------------
(* Requests and reads of the RailwaySimulation (src/backend/main.py) *)

NoRequest == [train_id |-> "", delay_min |-> 0]

NoOutput == [success |-> TRUE]

\* delay_min of the body of POST /delay
DelayMinutes == {-2, 1}

\* The amount added without the clamp at 0.  C21 depends on the clamp and
\* fails with this one.
DelayAmountUnclamped(delay_min) == delay_min

\* max(0, int(body.delay_min)) of post_delay
DelayAmount(delay_min) == Max(0, delay_min)

\* round(a / b, k) for a, b > 0, as the quotient q and remainder r of the
\* long division give it: to nearest, ties to even
RoundQuotient(q, r, b) ==
    IF 2 * r < b THEN q
    ELSE IF 2 * r > b THEN q + 1
    ELSE IF q % 2 = 0 THEN q ELSE q + 1

\* round(p / length, 4) in units of 1e-4, by long division digit by digit
RECURSIVE ProgressDigits(_, _, _, _)
ProgressDigits(q, r, length, k) ==
    IF k = 0 THEN RoundQuotient(q, r, length)
    ELSE ProgressDigits(10 * q + (10 * r) \div length, (10 * r) % length, length, k - 1)

\* progress of a snapshot row: 0 without a length, else position / length
\* held between 0 and 1 and rounded to 4 places (units of 1e-4)
Progress(position, length) ==
    IF length <= 0 THEN 0
    ELSE IF position <= 0 THEN 0
    ELSE IF position >= length THEN 10000
    ELSE ProgressDigits(0, position, length, 4)

\* One row of state_snapshot; position_m and edge_length_m are rounded to
\* the centimetre
SnapshotRow(id, t) ==
    LET has == t.current_edge # NoEdge
        length == IF has THEN EdgeLength(t.current_edge[1], t.current_edge[2]) ELSE 0
    IN [ id            |-> id,
         type          |-> t.type,
         priority      |-> t.priority,
         edge          |-> t.current_edge,
         position_m    |-> RoundQuotient(t.position \div 10, t.position % 10, 10),
         edge_length_m |-> RoundQuotient(length \div 10, length % 10, 10),
         speed_mps     |-> t.speed_mps,
         status        |-> t.status,
         progress      |-> Progress(t.position, length),
         delay_min     |-> t.delay_min ]

\* RailwaySimulation.state_snapshot
StateSnapshot(reg) == [ trains |-> { SnapshotRow(id, reg[id]) : id \in DOMAIN reg } ]

\* The registry after a state_snapshot that stores the rounded position back
\* in the train.  C23 depends on the read leaving the trains alone and fails
\* with this one.
AfterSnapshotRounded(reg) ==
    [ id \in DOMAIN reg |->
        [reg[id] EXCEPT !.position = 10 * RoundQuotient(@ \div 10, @ % 10, 10)] ]

\* The registry after state_snapshot: the method assigns to no train
AfterSnapshot(reg) == reg

\* The registry after a POST /optimize that applies the decisions it
\* computes.  C25 depends on the request leaving the trains alone and fails
\* with this one.
AfterOptimizeApplied(reg) == ApplyDecisions(reg, Decide(FindConflicts(reg), reg))

\* The registry after POST /optimize: _find_conflicts and the handler assign
\* to no train
AfterOptimize(reg) == reg

-----------------------------------------------------------------------------
(* Operations of the RailwaySimulation *)

RSInit ==
    /\ trains = << >>
    /\ rsPre = << >>
    /\ rsMid = << >>
    /\ rsConflicts = {}
    /\ rsDecisions = << >>
    /\ rsOp = "init"
    /\ rsReq = NoRequest
    /\ rsOut = NoOutput
    /\ rsRepeat = FALSE

\* The record of the last tick is kept only until the next operation
NoTickHistory ==
    /\ rsPre' = << >>
    /\ rsMid' = << >>
    /\ rsConflicts' = {}
    /\ rsDecisions' = << >>

\* An operation that is not a request with a body and returns None
NoCall ==
    /\ rsReq' = NoRequest
    /\ rsOut' = NoOutput
    /\ rsRepeat' = FALSE

\* RailwaySimulation.add_train
AddTrain(id, route, speed, prio) ==
    /\ trains' = [ x \in DOMAIN trains \cup {id} |->
                     IF x = id THEN NewTrain(route, speed, prio) ELSE trains[x] ]
    /\ rsOp' = "add_train"
    /\ NoTickHistory
    /\ NoCall
    /\ UNCHANGED <<rtVars, dVars, lpVars, tkVars>>

\* RailwaySimulation.reset
Reset ==
    /\ trains' = [ id \in DOMAIN trains |->
                     [trains[id] EXCEPT !.position = 0,
                                        !.current_edge = NoEdge,
                                        !.delay_min = 0,
                                        !.status = "stopped"] ]
    /\ rsOp' = "reset"
    /\ NoTickHistory
    /\ NoCall
    /\ UNCHANGED <<rtVars, dVars, lpVars, tkVars>>

\* RailwaySimulation._step_one_minute
StepOneMinute ==
    /\ \A id \in DOMAIN trains : trains[id].delay_min < MaxDelay
    /\ LET conflicts == FindConflicts(trains)
           decisions == IF conflicts # {} THEN Decide(conflicts, trains) ELSE << >>
           held == IF conflicts # {} THEN ApplyDecisions(trains, decisions) ELSE trains
       IN
       /\ rsPre' = trains
       /\ rsConflicts' = conflicts
       /\ rsDecisions' = decisions
       /\ rsMid' = held
       /\ trains' = AdvanceAll(held)
    /\ rsOp' = "tick"
    /\ NoCall
    /\ UNCHANGED <<rtVars, dVars, lpVars, tkVars>>

\* POST /delay of backend/main.py
PostDelay(train_id, delay_min) ==
    /\ train_id \in DOMAIN trains =>
          trains[train_id].delay_min + DelayAmount(delay_min) <= MaxDelay
    /\ rsReq' = [train_id |-> train_id, delay_min |-> delay_min]
    /\ IF train_id \notin DOMAIN trains
       THEN /\ rsOut' = [success |-> FALSE]
            /\ trains' = trains
       ELSE /\ rsOut' = [success |-> TRUE]
            /\ trains' = [trains EXCEPT ![train_id].delay_min = @ + DelayAmount(delay_min)]
    /\ rsOp' = "delay"
    /\ rsRepeat' = FALSE
    /\ NoTickHistory
    /\ UNCHANGED <<rtVars, dVars, lpVars, tkVars>>

\* RailwaySimulation.state_snapshot, called by a reader
StateSnapshotCall ==
    /\ trains' = AfterSnapshot(trains)
    /\ rsOut' = StateSnapshot(trains)
    /\ rsOp' = "snapshot"
    /\ rsRepeat' = (rsOp = "snapshot")
    /\ rsReq' = NoRequest
    /\ NoTickHistory
    /\ UNCHANGED <<rtVars, dVars, lpVars, tkVars>>

\* POST /optimize of backend/main.py: _find_conflicts, then decide
RsPostOptimize ==
    /\ trains' = AfterOptimize(trains)
    /\ rsOut' = [success |-> TRUE,
                 decisions |-> Decide(FindConflicts(trains), trains)]
    /\ rsOp' = "optimize"
    /\ rsRepeat' = (rsOp = "optimize")
    /\ rsReq' = NoRequest
    /\ NoTickHistory
    /\ UNCHANGED <<rtVars, dVars, lpVars, tkVars>>

RSNext ==
    \/ \E id \in TrainIds, route \in Routes, speed \in Speeds, prio \in Priorities :
          AddTrain(id, route, speed, prio)
    \/ Reset
    \/ StepOneMinute

\* The routes and the speed of the trains seeded when the requests and
\* reads are exercised
ApiRoutes == { <<"A", "B", "C", "D">>, <<"C", "D">>, <<"D", "C", "A">> }

ApiSpeeds == {40}

\* The RailwaySimulation with the requests and reads of backend/main.py
ApiNext ==
    \/ \E id \in TrainIds, route \in ApiRoutes, speed \in ApiSpeeds, prio \in Priorities :
          AddTrain(id, route, speed, prio)
    \/ Reset
    \/ StepOneMinute
    \/ \E train_id \in TrainIds, delay_min \in DelayMinutes : PostDelay(train_id, delay_min)
    \/ StateSnapshotCall
    \/ RsPostOptimize

\* The keys of the decision maps handed to _apply_decisions
DecisionKeys == {"C->D", "D->A"}

\* The decision maps: every map from a set of keys to winners
DecisionMaps == UNION { [K -> TrainIds] : K \in SUBSET DecisionKeys }

\* RailwaySimulation._apply_decisions, called with a decision map
ApplyDecisionsCall(decisions) ==
    /\ \A id \in DOMAIN trains : trains[id].delay_min < MaxDelay
    /\ rsPre' = trains
    /\ rsConflicts' = {}
    /\ rsDecisions' = decisions
    /\ rsMid' = ApplyDecisions(trains, decisions)
    /\ trains' = ApplyDecisions(trains, decisions)
    /\ rsOp' = "apply"
    /\ NoCall
    /\ UNCHANGED <<rtVars, dVars, lpVars, tkVars>>

\* A reset that leaves the delays as they are.  C38 depends on the delay
\* being cleared and fails with this one.
ResetRegistryKeepDelay(reg) ==
    [ id \in DOMAIN reg |->
        [reg[id] EXCEPT !.position = 0,
                        !.current_edge = NoEdge,
                        !.status = "stopped"] ]

\* The registry RailwaySimulation.reset leaves
ResetRegistry(reg) ==
    [ id \in DOMAIN reg |->
        [reg[id] EXCEPT !.position = 0,
                        !.current_edge = NoEdge,
                        !.delay_min = 0,
                        !.status = "stopped"] ]

\* POST /reset of backend/main.py
PostReset ==
    /\ rsPre' = trains
    /\ rsMid' = << >>
    /\ rsConflicts' = {}
    /\ rsDecisions' = << >>
    /\ trains' = ResetRegistry(trains)
    /\ rsOp' = "post_reset"
    /\ rsReq' = NoRequest
    /\ rsOut' = [success |-> TRUE]
    /\ rsRepeat' = (rsOp = "post_reset")
    /\ UNCHANGED <<rtVars, dVars, lpVars, tkVars>>

\* The routes and the speed of the trains registered when _apply_decisions
\* and POST /reset are exercised
CmdRoutes == { <<"A", "B", "C", "D">>, <<"A", "B", "D", "A">> }

CmdSpeeds == {40}

\* The RailwaySimulation with calls of _apply_decisions and POST /reset
CmdNext ==
    \/ \E id \in TrainIds, route \in CmdRoutes, speed \in CmdSpeeds, prio \in Priorities :
          AddTrain(id, route, speed, prio)
    \/ StepOneMinute
    \/ \E decisions \in DecisionMaps : ApplyDecisionsCall(decisions)
    \/ PostReset

\* Routes of the trains registered when the order of the route is
\* exercised: one that comes back to a node it has visited, one that does not
RevisitRoutes == { <<"D", "C", "D", "A">>, <<"A", "B", "C", "D">> }

\* Priority of the trains registered there: the order of a route does not
\* depend on it
SeedPriorities == {1}

\* add_train before the first tick
SeedTrain(id, route, speed, prio) ==
    /\ rsOp \in {"init", "add_train"}
    /\ AddTrain(id, route, speed, prio)

\* The RailwaySimulation with trains registered first and ticks only after
RouteNext ==
    \/ \E id \in TrainIds, route \in RevisitRoutes, speed \in Speeds,
             prio \in SeedPriorities :
          SeedTrain(id, route, speed, prio)
    \/ StepOneMinute

-----------------------------------------------------------------------------
(* The AsyncSimulation (src/rt_simulation.py) and its demo network         *)

\* tick_seconds, in milliseconds
TickMs == 500
\* 0.1 m, the least remaining distance the optimizer plans for, in millimetres
MinRemaining == 100
\* horizon_s of build_and_solve as _loop calls it
HorizonS == 3600
\* the express hint: start <= planned_departure_s + 120
ExpressSlackS == 120
\* scale: seconds to integer milliseconds
Scale == 1000

RtGraph ==
    (<<"S1", "J1">> :> [length |-> 20000, max_speed |-> <<72>>]) @@
    (<<"J1", "S2">> :> [length |-> 10000, max_speed |-> <<>>])

RtHasEdge(u, v) == <<u, v>> \in DOMAIN RtGraph

\* AsyncSimulation._edge_length
RtEdgeLength(u, v) == IF RtHasEdge(u, v) THEN RtGraph[<<u, v>>].length ELSE 0

RtPaths == { <<"S1", "J1", "S2">>, <<"S1", "S2">> }

PriorityClasses == {"express", "freight"}

RtSpeeds == {20, -5}

\* dataclass Train of rt_simulation with its defaults
RtNewTrain(prio, maxSpeed, path) ==
    [ priority            |-> prio,
      max_speed_mps       |-> maxSpeed,
      path_nodes          |-> path,
      planned_departure_s |-> 0,
      position_edge       |-> NoEdge,
      position_m          |-> 0,
      speed_mps           |-> 0,
      status              |-> "stopped" ]

\* min(t.max_speed_mps, float(vmax) / 3.6), or t.max_speed_mps without a limit
RtMaxSpeed(maxSpeed, e) ==
    IF RtGraph[e].max_speed = <<>> THEN maxSpeed
    ELSE Min(maxSpeed, (RtGraph[e].max_speed[1] * 10) \div 36)

\* The end-of-edge part of _advance_train (lines 198-209)
RtAdvanceAtEnd(t, u) ==
    LET idx == IndexOf(t.path_nodes, u) IN
    IF Len(t.path_nodes) > 0 /\ idx + 2 < Len(t.path_nodes)
       /\ RtHasEdge(t.path_nodes[idx + 2], t.path_nodes[idx + 3])
    THEN [t EXCEPT !.position_edge = <<t.path_nodes[idx + 2], t.path_nodes[idx + 3]>>,
                   !.position_m = 0,
                   !.status = "running"]
    ELSE [t EXCEPT !.status = "stopped"]

\* The part of _advance_train after the first edge is set (lines 189-209)
RtAdvanceOnEdge(t) ==
    LET u == t.position_edge[1]
        v == t.position_edge[2]
        length == RtEdgeLength(u, v)
    IN
    IF length <= 0 THEN [t EXCEPT !.status = "stopped"]
    ELSE
        LET max_speed == RtMaxSpeed(t.max_speed_mps, <<u, v>>)
            speed == Min(max_speed,
                         Max(0, IF t.speed_mps = 0 THEN max_speed ELSE t.speed_mps))
            moved == [t EXCEPT !.speed_mps = speed,
                               !.position_m = Min(length, t.position_m + speed * TickMs)]
        IN
        IF moved.position_m >= length - Eps
        THEN RtAdvanceAtEnd(moved, u)
        ELSE moved

\* AsyncSimulation._advance_train
RtAdvanceTrain(t) ==
    IF t.position_edge = NoEdge
    THEN IF Len(t.path_nodes) >= 2 /\ RtHasEdge(t.path_nodes[1], t.path_nodes[2])
         THEN RtAdvanceOnEdge([t EXCEPT
                  !.position_edge = <<t.path_nodes[1], t.path_nodes[2]>>,
                  !.position_m = 0,
                  !.status = "running"])
         ELSE [t EXCEPT !.status = "stopped"]
    ELSE RtAdvanceOnEdge(t)

\* AsyncSimulation._tick
RtTick(reg) == [ id \in DOMAIN reg |-> RtAdvanceTrain(reg[id]) ]

-----------------------------------------------------------------------------
(* Optimizer.build_and_solve: one interval per train, no overlap per edge, *)
(* minimize the sum of start * priority weight.                            *)

\* round(a / b) as Python rounds: to nearest, ties to even
RoundDiv(a, b) ==
    LET q == a \div b
        r == a % b
    IN IF 2 * r < b THEN q
       ELSE IF 2 * r > b THEN q + 1
       ELSE IF q % 2 = 0 THEN q ELSE q + 1

\* seconds_to_int(dist / max(0.1, speed)) for a distance in millimetres
TravelMs(distMm, speed) ==
    IF speed >= 1 THEN RoundDiv(distMm, speed) ELSE distMm * 10

\* 1 for express, 5 for passenger, 10 for freight
PrioWeight(prio) ==
    IF prio = "express" THEN 1 ELSE IF prio = "passenger" THEN 5 ELSE 10

\* Whether build_and_solve creates an interval for this train
HasJob(t) ==
    \/ t.position_edge # NoEdge
    \/ Len(t.path_nodes) >= 2 /\ RtHasEdge(t.path_nodes[1], t.path_nodes[2])

\* graph[u][v][0] of a train's current edge raises KeyError without the edge
BuildRaises(reg) ==
    \E id \in DOMAIN reg :
        /\ reg[id].position_edge # NoEdge
        /\ ~RtHasEdge(reg[id].position_edge[1], reg[id].position_edge[2])

\* The interval of one train: its edge, its duration, the upper bound of its
\* start; weight and under_way are kept with it for the objective and for the
\* properties (under_way: the train was on the edge when the plan was built)
Job(id, t, horizonMs) ==
    IF t.position_edge = NoEdge
    THEN LET e == <<t.path_nodes[1], t.path_nodes[2]>> IN
         [ train_id  |-> id,
           edge      |-> e,
           dur       |-> TravelMs(RtGraph[e].length, RtMaxSpeed(t.max_speed_mps, e)),
           ub        |-> IF t.priority = "express"
                         THEN Min(horizonMs, (t.planned_departure_s + ExpressSlackS) * Scale)
                         ELSE horizonMs,
           weight    |-> PrioWeight(t.priority),
           under_way |-> FALSE ]
    ELSE LET e == t.position_edge IN
         [ train_id  |-> id,
           edge      |-> e,
           dur       |-> TravelMs(Max(MinRemaining, RtGraph[e].length - t.position_m),
                                  RtMaxSpeed(t.max_speed_mps, e)),
           ub        |-> horizonMs,
           weight    |-> PrioWeight(t.priority),
           under_way |-> TRUE ]

Jobs(reg, horizonMs) ==
    { Job(id, reg[id], horizonMs) : id \in {x \in DOMAIN reg : HasJob(reg[x])} }

RECURSIVE SumDur(_)
SumDur(js) ==
    IF js = {} THEN 0
    ELSE LET j == CHOOSE x \in js : TRUE IN j.dur + SumDur(js \ {j})

\* The start times considered: 0 and every sum of durations of other
\* intervals.  Every left-shifted schedule, hence every optimal one, has its
\* starts among these.
StartCandidates(jobs) == { SumDur(js) : js \in SUBSET jobs }

\* The constraint had the intervals been grouped by their key (tid, u, v)
\* instead of by edge: every group is a single interval.  C5 depends on the
\* grouping by edge and fails with this one.
NoOverlapPerKey(jobs, start) ==
    \A a \in jobs, b \in jobs :
        (a # b /\ a.edge = b.edge /\ a.train_id = b.train_id) =>
            \/ start[a.train_id] + a.dur <= start[b.train_id]
            \/ start[b.train_id] + b.dur <= start[a.train_id]

\* AddNoOverlap per edge (u, v): the intervals on one edge can be ordered so
\* that each ends before the next starts
NoOverlapPerEdge(jobs, start) ==
    \A a \in jobs, b \in jobs :
        (a # b /\ a.edge = b.edge) =>
            \/ start[a.train_id] + a.dur <= start[b.train_id]
            \/ start[b.train_id] + b.dur <= start[a.train_id]

\* The domain of every start variable and the express hint
StartBoundsOK(jobs, start) ==
    \A j \in jobs : 0 <= start[j.train_id] /\ start[j.train_id] <= j.ub

FeasibleStarts(jobs) ==
    { start \in [ {j.train_id : j \in jobs} -> StartCandidates(jobs) ] :
        StartBoundsOK(jobs, start) /\ NoOverlapPerEdge(jobs, start) }

RECURSIVE Objective(_, _)
Objective(jobs, start) ==
    IF jobs = {} THEN 0
    ELSE LET j == CHOOSE x \in jobs : TRUE
         IN start[j.train_id] * j.weight + Objective(jobs \ {j}, start)

OptimalStarts(jobs) ==
    { s \in FeasibleStarts(jobs) :
        \A o \in FeasibleStarts(jobs) : Objective(jobs, s) <= Objective(jobs, o) }

Assignments(jobs, start) ==
    { [ train_id    |-> j.train_id,
        edge        |-> j.edge,
        start_ms    |-> start[j.train_id],
        duration_ms |-> j.dur,
        weight      |-> j.weight,
        under_way   |-> j.under_way ] : j \in jobs }

NoPlan == [status |-> "NONE", assignments |-> {}]

\* The plans build_and_solve can return within its time budget: an optimal
\* one, any feasible one, or none (infeasible, or unknown at the time limit;
\* the code's guard "solver.Value(s) is not None" then leaves no assignment)
SolvedPlans(reg, horizonMs) ==
    LET jobs == Jobs(reg, horizonMs) IN
    { [status |-> "OPTIMAL", assignments |-> Assignments(jobs, s)] :
         s \in OptimalStarts(jobs) }
    \cup
    { [status |-> "FEASIBLE", assignments |-> Assignments(jobs, s)] :
         s \in FeasibleStarts(jobs) }
    \cup
    { [status |-> "UNKNOWN", assignments |-> {}] }
    \cup
    ( IF FeasibleStarts(jobs) = {}
      THEN { [status |-> "INFEASIBLE", assignments |-> {}] }
      ELSE {} )

-----------------------------------------------------------------------------
(* Events *)

\* payload["path"] as sent: absent, or a value of some kind with its items
ReroutePayloads ==
    { [kind |-> "missing", nodes |-> <<>>],
      [kind |-> "list",    nodes |-> <<>>],
      [kind |-> "list",    nodes |-> <<"S1">>],
      [kind |-> "list",    nodes |-> <<"S1", "J1", "S2">>],
      [kind |-> "list",    nodes |-> <<"S1", "S2">>],
      [kind |-> "tuple",   nodes |-> <<"S1", "J1">>] }

SpeedPayloads == {-5, 10}

DelayPayloads == {-121}

\* the train the events are addressed to, registered or not
EventTargets == {"T1"}

Events ==
    { [type |-> ty, train_id |-> id, path |-> [kind |-> "missing", nodes |-> <<>>],
       speed_mps |-> 0, delay_s |-> 0] :
          ty \in {"hold", "breakdown"}, id \in EventTargets }
    \cup
    { [type |-> "speed", train_id |-> id, path |-> [kind |-> "missing", nodes |-> <<>>],
       speed_mps |-> sp, delay_s |-> 0] : sp \in SpeedPayloads, id \in EventTargets }
    \cup
    { [type |-> "delay", train_id |-> id, path |-> [kind |-> "missing", nodes |-> <<>>],
       speed_mps |-> 0, delay_s |-> d] : d \in DelayPayloads, id \in EventTargets }
    \cup
    { [type |-> "reroute", train_id |-> id, path |-> p,
       speed_mps |-> 0, delay_s |-> 0] : p \in ReroutePayloads, id \in EventTargets }

NoEvent == [type |-> "none", train_id |-> "", path |-> [kind |-> "missing", nodes |-> <<>>],
            speed_mps |-> 0, delay_s |-> 0]

\* evt.payload.get("path") or []
PathValue(p) ==
    IF p.kind = "missing" \/ Len(p.nodes) = 0
    THEN [kind |-> "list", nodes |-> <<>>]
    ELSE p

\* The test without its isinstance part.  C10 depends on that part and fails
\* with this one.
RerouteAcceptedAnySequence(path) == Len(path.nodes) >= 2

\* isinstance(path, list) and len(path) >= 2
RerouteAccepted(path) == path.kind = "list" /\ Len(path.nodes) >= 2

\* inject_event on a registered train: the train after the event
EventEffect(t, evt) ==
    IF evt.type = "hold"
    THEN [t EXCEPT !.status = "held", !.speed_mps = 0]
    ELSE IF evt.type = "speed"
    THEN [t EXCEPT !.max_speed_mps = Max(0, evt.speed_mps)]
    ELSE IF evt.type = "reroute" /\ RerouteAccepted(PathValue(evt.path))
    THEN LET path == PathValue(evt.path).nodes IN
         [t EXCEPT !.path_nodes = path,
                   !.position_edge = IF Len(path) >= 2 THEN <<path[1], path[2]>>
                                     ELSE NoEdge,
                   !.position_m = 0,
                   !.status = "running"]
    ELSE IF evt.type = "delay"
    THEN [t EXCEPT !.planned_departure_s = @ + evt.delay_s]
    ELSE IF evt.type = "breakdown"
    THEN [t EXCEPT !.status = "delayed", !.speed_mps = 0]
    ELSE t

\* inject_event on a registered train: the value returned
EventResult(evt) ==
    \/ evt.type \in {"hold", "speed", "delay", "breakdown"}
    \/ evt.type = "reroute" /\ RerouteAccepted(PathValue(evt.path))

-----------------------------------------------------------------------------
(* Operations of the AsyncSimulation *)

RtInit ==
    /\ rtTrains = << >>
    /\ rtRunning = FALSE
    /\ rtTask = "none"
    /\ rtNow = 0
    /\ rtEvt = NoEvent
    /\ rtRet = FALSE
    /\ rtEvents = 0
    /\ plan = NoPlan
    /\ planAt = 0
    /\ rtPlans = 0

\* AsyncSimulation.add_train.  The trains are seeded before the loop is first
\* started and every identifier is registered once, as rt_main does
\* (lines 46-47); it has no route that registers a train later.
RtAddTrain(id, prio, maxSpeed, path) ==
    /\ rtTask = "none"
    /\ id \notin DOMAIN rtTrains
    /\ rtTrains' = [ x \in DOMAIN rtTrains \cup {id} |->
                       IF x = id THEN RtNewTrain(prio, maxSpeed, path)
                       ELSE rtTrains[x] ]
    /\ rtEvt' = NoEvent
    /\ rtRet' = TRUE
    /\ UNCHANGED <<rtRunning, rtTask, rtNow, rtEvents, plan, planAt, rtPlans>>
    /\ UNCHANGED <<rsVars, dVars, lpVars, tkVars>>

\* AsyncSimulation.inject_event
InjectEvent(evt) ==
    /\ rtEvents < MaxEvents
    /\ rtEvents' = rtEvents + 1
    /\ rtEvt' = evt
    /\ IF evt.train_id \notin DOMAIN rtTrains
       THEN rtRet' = FALSE /\ rtTrains' = rtTrains
       ELSE /\ rtRet' = EventResult(evt)
            /\ rtTrains' = [rtTrains EXCEPT ![evt.train_id] = EventEffect(@, evt)]
    /\ UNCHANGED <<rtRunning, rtTask, rtNow, plan, planAt, rtPlans>>
    /\ UNCHANGED <<rsVars, dVars, lpVars, tkVars>>

\* AsyncSimulation.start
Start ==
    /\ IF rtRunning
       THEN UNCHANGED <<rtRunning, rtTask>>
       ELSE rtRunning' = TRUE /\ rtTask' = "alive"
    /\ rtEvt' = NoEvent
    /\ rtRet' = FALSE
    /\ UNCHANGED <<rtTrains, rtNow, rtEvents, plan, planAt, rtPlans>>
    /\ UNCHANGED <<rsVars, dVars, lpVars, tkVars>>

\* AsyncSimulation.stop: the flag is cleared and the loop task, if it is
\* alive, leaves its while loop at the next test
Stop ==
    /\ rtRunning' = FALSE
    /\ rtTask' = IF rtTask = "alive" THEN "done" ELSE rtTask
    /\ rtEvt' = NoEvent
    /\ rtRet' = FALSE
    /\ UNCHANGED <<rtTrains, rtNow, rtEvents, plan, planAt, rtPlans>>
    /\ UNCHANGED <<rsVars, dVars, lpVars, tkVars>>

\* One iteration of AsyncSimulation._loop: the tick, the optimizer when more
\* than 2 s of wall time have passed (optimize), and the state snapshot
LoopIteration(optimize) ==
    /\ rtRunning /\ rtTask = "alive"
    /\ rtNow < MaxRtTicks
    /\ rtNow' = rtNow + 1
    /\ rtTrains' = RtTick(rtTrains)
    /\ rtEvt' = NoEvent
    /\ rtRet' = FALSE
    /\ UNCHANGED <<rtRunning, rtEvents>>
    /\ UNCHANGED <<rsVars, dVars, lpVars, tkVars>>
    /\ optimize => rtPlans < MaxPlans
    /\ IF ~optimize
       THEN UNCHANGED <<rtTask, plan, planAt, rtPlans>>
       ELSE IF BuildRaises(RtTick(rtTrains))
       THEN rtTask' = "failed" /\ UNCHANGED <<plan, planAt, rtPlans>>
       ELSE /\ plan' \in SolvedPlans(RtTick(rtTrains), HorizonS * Scale)
            /\ planAt' = rtNow + 1
            /\ rtPlans' = rtPlans + 1
            /\ UNCHANGED rtTask

\* POST /optimize of rt_main: build_and_solve with horizon_s = headway_s * 10
PostOptimize(headway_s) ==
    /\ rtPlans < MaxPlans
    /\ ~BuildRaises(rtTrains)
    /\ plan' \in SolvedPlans(rtTrains, headway_s * 10 * Scale)
    /\ planAt' = rtNow
    /\ rtPlans' = rtPlans + 1
    /\ rtEvt' = NoEvent
    /\ rtRet' = FALSE
    /\ UNCHANGED <<rtTrains, rtRunning, rtTask, rtNow, rtEvents>>
    /\ UNCHANGED <<rsVars, dVars, lpVars, tkVars>>

Headways == {60}

RtNext ==
    \/ \E id \in TrainIds, prio \in PriorityClasses, sp \in RtSpeeds, path \in RtPaths :
          RtAddTrain(id, prio, sp, path)
    \/ \E evt \in Events : InjectEvent(evt)
    \/ Start
    \/ Stop
    \/ \E optimize \in BOOLEAN : LoopIteration(optimize)
    \/ \E h \in Headways : PostOptimize(h)

-----------------------------------------------------------------------------
(* The route-based Simulator (src/delhi_folium_sim.py).                    *)
(* Times are tenths of a second, distances centimetres, speeds             *)
(* centimetres/second; a quotient is rounded down to the unit.             *)

\* Route names, and for each route the lengths of the segments of its
\* polyline
RouteNames == {"NDLS_DLI", "DLI_ANVT"}

RouteSegments(name) == <<1000, 5000>>

RECURSIVE SumSeq(_)
SumSeq(q) == IF q = << >> THEN 0 ELSE Head(q) + SumSeq(Tail(q))

\* Route.length_m
RouteLength(name) == SumSeq(RouteSegments(name))

\* Route.segment_index_at_distance: acc is the length of the first i
\* segments; zero-based index
RECURSIVE SegmentScan(_, _, _, _)
SegmentScan(segs, i, acc, s_m) ==
    IF i > Len(segs) THEN Max(0, Len(segs) - 1)
    ELSE IF acc + segs[i] >= s_m THEN i - 1
    ELSE SegmentScan(segs, i + 1, acc + segs[i], s_m)

SegmentIndexAtDistance(name, s_m) ==
    IF s_m <= 0 THEN 0 ELSE SegmentScan(RouteSegments(name), 1, 0, s_m)

\* The schedules of the trains a Simulator is constructed with
Schedules ==
    { [start_s |-> 0,  end_s |-> 60, nominal_speed_mps |-> 2000],
      [start_s |-> 10, end_s |-> 70, nominal_speed_mps |-> 2000],
      [start_s |-> 0,  end_s |-> 50, nominal_speed_mps |-> 500] }

\* dataclass Train of delhi_folium_sim with its defaults
DNewTrain(route, sched) ==
    [ route             |-> route,
      start_s           |-> sched.start_s,
      end_s             |-> sched.end_s,
      nominal_speed_mps |-> sched.nominal_speed_mps,
      cur_s             |-> 0,
      speed_mps         |-> 0,
      finished          |-> FALSE ]

\* tick_s: the default 2.0 s and 0.1 s
TickChoices == {20, 1}

\* Train.desired_speed_at_time
DesiredSpeedAtTime(t, t_s) ==
    LET duration == Max(10, t.end_s - t.start_s)
        elapsed == Max(0, Min(duration, t_s - t.start_s))
        target_s == (elapsed * RouteLength(t.route)) \div duration
        lag_m == Max(0, target_s - t.cur_s)
        extra == Min(t.nominal_speed_mps \div 2,
                     (2 * t.nominal_speed_mps * lag_m) \div Max(100, RouteLength(t.route)))
    IN Min(t.nominal_speed_mps + extra, (t.nominal_speed_mps * 175) \div 100)

\* The condition of Simulator._active_trains and of _detect_conflicts
Active(t, time_s) == t.start_s <= time_s /\ time_s <= t.end_s /\ ~t.finished

\* Simulator._advance_train; the 1e-3 m tolerance is below the unit
DAdvanceTrain(t, time_s, tick_s) ==
    IF time_s < t.start_s \/ t.finished THEN [t EXCEPT !.speed_mps = 0]
    ELSE LET desired == DesiredSpeedAtTime(t, time_s)
             cur == Min(RouteLength(t.route), t.cur_s + (desired * tick_s) \div 10)
         IN [t EXCEPT !.speed_mps = desired,
                      !.cur_s = cur,
                      !.finished = (cur >= RouteLength(t.route) \/ time_s >= t.end_s)]

\* The pairs (i, j), i < j, in the order of the two loops of
\* _detect_conflicts
RECURSIVE PairsFrom(_, _, _)
PairsFrom(i, j, n) ==
    IF i >= n THEN << >>
    ELSE IF j > n THEN PairsFrom(i + 1, i + 2, n)
    ELSE << <<i, j>> >> \o PairsFrom(i, j + 1, n)

\* Simulator._detect_conflicts: pairs of active trains on the same route
\* and the same segment
InConflict(ts, time_s, pr) ==
    LET a == ts[pr[1]]
        b == ts[pr[2]]
    IN /\ Active(a, time_s)
       /\ Active(b, time_s)
       /\ a.route = b.route
       /\ SegmentIndexAtDistance(a.route, a.cur_s) = SegmentIndexAtDistance(b.route, b.cur_s)

DetectConflicts(ts, time_s) ==
    LET RECURSIVE Keep(_)
        Keep(q) == IF q = << >> THEN << >>
                   ELSE IF InConflict(ts, time_s, Head(q))
                        THEN << Head(q) >> \o Keep(Tail(q))
                        ELSE Keep(Tail(q))
    IN Keep(PairsFrom(1, 2, Len(ts)))

\* The body of the loop of _resolve_conflicts for one victim
BackOff(t) ==
    LET slowed == Max(100, (t.speed_mps * 6) \div 10) IN
    [t EXCEPT !.speed_mps = slowed,
              !.cur_s = Max(0, t.cur_s - (slowed * 25) \div 100)]

\* Simulator._resolve_conflicts
RECURSIVE ResolveConflicts(_, _)
ResolveConflicts(ts, conflicts) ==
    IF conflicts = << >> THEN ts
    ELSE LET a == Head(conflicts)[1]
             b == Head(conflicts)[2]
             victim == IF ts[b].start_s >= ts[a].start_s THEN b ELSE a
         IN ResolveConflicts([ts EXCEPT ![victim] = BackOff(@)], Tail(conflicts))

DInit ==
    /\ dTrains = << >>
    /\ dTime = 0
    /\ dTickS = 0

\* Simulator.__init__
Construct(ts, tick_s) ==
    /\ dTickS = 0
    /\ dTrains' = ts
    /\ dTime' = 0
    /\ dTickS' = tick_s
    /\ UNCHANGED <<rsVars, rtVars, lpVars, tkVars>>

\* Simulator.step
Step ==
    /\ dTickS > 0
    /\ dTime < MaxTime
    /\ LET advanced == [ i \in DOMAIN dTrains |->
                           IF Active(dTrains[i], dTime)
                           THEN DAdvanceTrain(dTrains[i], dTime, dTickS)
                           ELSE dTrains[i] ]
       IN dTrains' = ResolveConflicts(advanced, DetectConflicts(advanced, dTime))
    /\ dTime' = dTime + dTickS
    /\ UNCHANGED dTickS
    /\ UNCHANGED <<rsVars, rtVars, lpVars, tkVars>>

DNext ==
    \/ \E ra \in RouteNames, rb \in RouteNames, sa \in Schedules, sb \in Schedules,
          tick_s \in TickChoices :
          Construct(<< DNewTrain(ra, sa), DNewTrain(rb, sb) >>, tick_s)
    \/ Step

-----------------------------------------------------------------------------
(* The loop of the RailwaySimulation on the asyncio event loop, with the   *)
(* update queue, its consumers and the requests of backend/main.py.        *)
(* One coroutine runs at a time and gives way only at an await that        *)
(* suspends: the loop task at asyncio.sleep (simulation.py:93) and at a    *)
(* put on a full queue (line 89); handlers and consumers run in between.   *)

\* asyncio.Queue(): maxsize 0, a queue without a bound
QueueMaxSize == 0

Consumers == {"c1", "c2"}

\* The registries seed_trains leaves before the loop is started
Seeds ==
    { ("T1" :> NewTrain(<<"A", "B", "C", "D">>, 40, 1)) @@
      ("T2" :> NewTrain(<<"A", "B", "C", "D">>, 40, 2)),
      ("T1" :> NewTrain(<<"C", "D">>, 20, 1)) }

\* The task of _loop, when it has the event loop, gives it up nowhere: any
\* other coroutine may run at every point.  C29 depends on the places where
\* the task is suspended and fails with this one.
SuspendedAnywhere(pc) == TRUE

\* The loop task is not executing: there is none, it has been created and
\* not run yet, it is suspended at an await, or it has ended
Suspended(pc) == pc \in {"none", "created", "sleep", "put_wait", "done"}

\* A queue that is full as soon as it holds one message.  C27 depends on the
\* queue having no bound and fails with this one.
QueueFullAtOne(q) == Len(q) >= 1

\* asyncio.Queue.full()
QueueFull(q) == QueueMaxSize > 0 /\ Len(q) >= QueueMaxSize

\* An iteration that publishes the snapshot before it advances the trains.
\* C28 depends on the order of the steps and fails with this one.
NextPcPublishFirst(pc, hasConflicts) ==
    IF pc = "detect" THEN (IF hasConflicts THEN "decide" ELSE "publish")
    ELSE IF pc = "decide" THEN "apply"
    ELSE IF pc = "apply" THEN "publish"
    ELSE IF pc = "publish" THEN "advance"
    ELSE "sleep"

\* The order of the steps of one iteration: _step_one_minute (lines 182-197)
\* and then lines 89-93 of _loop
NextPc(pc, hasConflicts) ==
    IF pc = "detect" THEN (IF hasConflicts THEN "decide" ELSE "advance")
    ELSE IF pc = "decide" THEN "apply"
    ELSE IF pc = "apply" THEN "advance"
    ELSE IF pc = "advance" THEN "publish"
    ELSE "sleep"

\* A loop that goes on whatever the flag says.  C30 depends on the test of
\* the flag and fails with this one.
WhileTestIgnoresFlag(running) == "detect"

\* while self._running: the next iteration, or the end of the task
WhileTest(running) == IF running THEN "detect" ELSE "done"

\* A message on the queue; seq numbers the messages in the order of their
\* puts and is not part of the dictionary
Message(type, data) == [seq |-> Len(lpSent) + 1, type |-> type, data |-> data]

LpInit ==
    /\ lpRunning = FALSE
    /\ lpPc = "none"
    /\ lpStop = "idle"
    /\ lpTicks = 0
    /\ lpConflicts = {}
    /\ lpDecisions = << >>
    /\ lpTrace = << >>
    /\ lpQueue = << >>
    /\ lpSent = << >>
    /\ lpPending = << >>
    /\ lpSubs = {}
    /\ lpSubAt = << >>
    /\ lpRecv = [c \in Consumers |-> << >>]
    /\ lpOp = "init"
    /\ lpCmds = 0

\* What a step on the looping simulation leaves of the RailwaySimulation's
\* record of its last operation
rsHist == <<rsPre, rsMid, rsConflicts, rsDecisions, rsOp, rsReq, rsOut, rsRepeat>>

\* seed_trains, before the loop is started
Seed(reg) ==
    /\ lpPc = "none" /\ trains = << >>
    /\ trains' = reg
    /\ lpOp' = "seed"
    /\ UNCHANGED <<lpRunning, lpPc, lpStop, lpTicks, lpConflicts, lpDecisions, lpTrace,
                   lpQueue, lpSent, lpPending, lpSubs, lpSubAt, lpRecv, lpCmds>>
    /\ UNCHANGED <<rsHist, rtVars, dVars, tkVars>>

\* RailwaySimulation.start; a start while a stop() waits for the task is not
\* taken
LpStart ==
    /\ Suspended(lpPc) /\ lpStop # "waiting"
    /\ IF lpRunning
       THEN UNCHANGED <<lpRunning, lpPc, lpStop>>
       ELSE lpRunning' = TRUE /\ lpPc' = "created" /\ lpStop' = "idle"
    /\ lpOp' = "start"
    /\ UNCHANGED <<lpTicks, lpConflicts, lpDecisions, lpTrace,
                   lpQueue, lpSent, lpPending, lpSubs, lpSubAt, lpRecv, lpCmds>>
    /\ UNCHANGED <<rsVars, rtVars, dVars, tkVars>>

\* RailwaySimulation.stop up to its await: the flag is cleared, and the
\* caller waits for the task when there is one that has not ended
LpStop ==
    /\ Suspended(lpPc) /\ lpStop # "waiting"
    /\ lpRunning' = FALSE
    /\ lpStop' = IF lpPc \in {"none", "done"} THEN "returned" ELSE "waiting"
    /\ lpOp' = "stop"
    /\ UNCHANGED <<lpPc, lpTicks, lpConflicts, lpDecisions, lpTrace,
                   lpQueue, lpSent, lpPending, lpSubs, lpSubAt, lpRecv, lpCmds>>
    /\ UNCHANGED <<rsVars, rtVars, dVars, tkVars>>

\* asyncio.wait([task]) of stop() returns once the task has ended
LpStopReturn ==
    /\ lpStop = "waiting" /\ lpPc = "done"
    /\ lpStop' = "returned"
    /\ lpOp' = "stop_return"
    /\ UNCHANGED <<lpRunning, lpPc, lpTicks, lpConflicts, lpDecisions, lpTrace,
                   lpQueue, lpSent, lpPending, lpSubs, lpSubAt, lpRecv, lpCmds>>
    /\ UNCHANGED <<rsVars, rtVars, dVars, tkVars>>

\* The task is run, or resumed after its sleep: the test of the while loop
LoopWake ==
    /\ lpPc \in {"created", "sleep"}
    /\ lpRunning => lpTicks < MaxLoopTicks
    /\ lpPc' = WhileTest(lpRunning)
    /\ lpTrace' = << >>
    /\ lpOp' = "loop"
    /\ UNCHANGED <<lpRunning, lpStop, lpTicks, lpConflicts, lpDecisions,
                   lpQueue, lpSent, lpPending, lpSubs, lpSubAt, lpRecv, lpCmds>>
    /\ UNCHANGED <<rsVars, rtVars, dVars, tkVars>>

\* conflicts = self._find_conflicts()
LoopDetect ==
    /\ lpPc = "detect"
    /\ lpConflicts' = FindConflicts(trains)
    /\ lpDecisions' = << >>
    /\ lpPc' = NextPc("detect", FindConflicts(trains) # {})
    /\ lpTrace' = Append(lpTrace, "detect")
    /\ lpOp' = "loop"
    /\ UNCHANGED <<lpRunning, lpStop, lpTicks,
                   lpQueue, lpSent, lpPending, lpSubs, lpSubAt, lpRecv, lpCmds>>
    /\ UNCHANGED <<rsVars, rtVars, dVars, tkVars>>

\* decisions = self._optimizer.decide(...) and the create_task of the put of
\* the decisions message
LoopDecide ==
    /\ lpPc = "decide"
    /\ lpDecisions' = Decide(lpConflicts, trains)
    /\ lpPending' = Append(lpPending, [type |-> "decisions",
                                        data |-> Decide(lpConflicts, trains)])
    /\ lpPc' = NextPc("decide", TRUE)
    /\ lpTrace' = Append(lpTrace, "decide")
    /\ lpOp' = "loop"
    /\ UNCHANGED <<lpRunning, lpStop, lpTicks, lpConflicts,
                   lpQueue, lpSent, lpSubs, lpSubAt, lpRecv, lpCmds>>
    /\ UNCHANGED <<rsVars, rtVars, dVars, tkVars>>

\* self._apply_decisions(decisions)
LoopApply ==
    /\ lpPc = "apply"
    /\ trains' = ApplyDecisions(trains, lpDecisions)
    /\ lpPc' = NextPc("apply", TRUE)
    /\ lpTrace' = Append(lpTrace, "apply")
    /\ lpOp' = "loop"
    /\ UNCHANGED <<lpRunning, lpStop, lpTicks, lpConflicts, lpDecisions,
                   lpQueue, lpSent, lpPending, lpSubs, lpSubAt, lpRecv, lpCmds>>
    /\ UNCHANGED <<rsHist, rtVars, dVars, tkVars>>

\* The loop over the trains that advances them
LoopAdvance ==
    /\ lpPc = "advance"
    /\ trains' = AdvanceAll(trains)
    /\ lpTicks' = lpTicks + 1
    /\ lpPc' = NextPc("advance", lpConflicts # {})
    /\ lpTrace' = Append(lpTrace, "advance")
    /\ lpOp' = "loop"
    /\ UNCHANGED <<lpRunning, lpStop, lpConflicts, lpDecisions,
                   lpQueue, lpSent, lpPending, lpSubs, lpSubAt, lpRecv, lpCmds>>
    /\ UNCHANGED <<rsHist, rtVars, dVars, tkVars>>

\* await self._updates.put(state snapshot): the task waits while the queue
\* is full, else the message is enqueued and the task goes on to its sleep
LoopPublish ==
    /\ lpPc \in {"publish", "put_wait"}
    /\ IF QueueFull(lpQueue)
       THEN /\ lpPc' = "put_wait"
            /\ UNCHANGED <<lpQueue, lpSent, lpTrace>>
       ELSE /\ lpQueue' = Append(lpQueue, Message("state", StateSnapshot(trains)))
            /\ lpSent' = Append(lpSent, Message("state", StateSnapshot(trains)))
            /\ lpTrace' = Append(lpTrace, "publish")
            /\ lpPc' = NextPc("publish", lpConflicts # {})
    /\ lpOp' = "loop"
    /\ UNCHANGED <<lpRunning, lpStop, lpTicks, lpConflicts, lpDecisions,
                   lpPending, lpSubs, lpSubAt, lpRecv, lpCmds>>
    /\ UNCHANGED <<rsVars, rtVars, dVars, tkVars>>

\* The task made by asyncio.create_task(self._updates.put(...)) runs
RunPendingPut ==
    /\ Suspended(lpPc)
    /\ lpPending # << >>
    /\ ~QueueFull(lpQueue)
    /\ lpQueue' = Append(lpQueue, Message(Head(lpPending).type, Head(lpPending).data))
    /\ lpSent' = Append(lpSent, Message(Head(lpPending).type, Head(lpPending).data))
    /\ lpPending' = Tail(lpPending)
    /\ lpOp' = "put"
    /\ UNCHANGED <<lpRunning, lpPc, lpStop, lpTicks, lpConflicts, lpDecisions, lpTrace,
                   lpSubs, lpSubAt, lpRecv, lpCmds>>
    /\ UNCHANGED <<rsVars, rtVars, dVars, tkVars>>

\* ws_updates up to its loop: queue = await sim.updates()
Subscribe(c) ==
    /\ Suspended(lpPc)
    /\ c \notin lpSubs
    /\ lpSubs' = lpSubs \cup {c}
    /\ lpSubAt' = [x \in lpSubs \cup {c} |-> IF x = c THEN Len(lpSent) ELSE lpSubAt[x]]
    /\ lpOp' = "subscribe"
    /\ UNCHANGED <<lpRunning, lpPc, lpStop, lpTicks, lpConflicts, lpDecisions, lpTrace,
                   lpQueue, lpSent, lpPending, lpRecv, lpCmds>>
    /\ UNCHANGED <<rsVars, rtVars, dVars, tkVars>>

\* msg = await queue.get() of a consumer, and its send_json
Receive(c) ==
    /\ Suspended(lpPc)
    /\ c \in lpSubs
    /\ lpQueue # << >>
    /\ lpRecv' = [lpRecv EXCEPT ![c] = Append(@, Head(lpQueue))]
    /\ lpQueue' = Tail(lpQueue)
    /\ lpOp' = "receive"
    /\ UNCHANGED <<lpRunning, lpPc, lpStop, lpTicks, lpConflicts, lpDecisions, lpTrace,
                   lpSent, lpPending, lpSubs, lpSubAt, lpCmds>>
    /\ UNCHANGED <<rsVars, rtVars, dVars, tkVars>>

\* POST /delay while the simulation loops
LpPostDelay(train_id, delay_min) ==
    /\ Suspended(lpPc)
    /\ lpCmds < MaxCmds
    /\ train_id \in DOMAIN trains
    /\ trains' = [trains EXCEPT ![train_id].delay_min = @ + DelayAmount(delay_min)]
    /\ lpCmds' = lpCmds + 1
    /\ lpOp' = "delay"
    /\ UNCHANGED <<lpRunning, lpPc, lpStop, lpTicks, lpConflicts, lpDecisions, lpTrace,
                   lpQueue, lpSent, lpPending, lpSubs, lpSubAt, lpRecv>>
    /\ UNCHANGED <<rsHist, rtVars, dVars, tkVars>>

\* POST /reset while the simulation loops
LpPostReset ==
    /\ Suspended(lpPc)
    /\ lpCmds < MaxCmds
    /\ trains' = [ id \in DOMAIN trains |->
                     [trains[id] EXCEPT !.position = 0,
                                        !.current_edge = NoEdge,
                                        !.delay_min = 0,
                                        !.status = "stopped"] ]
    /\ lpCmds' = lpCmds + 1
    /\ lpOp' = "reset"
    /\ UNCHANGED <<lpRunning, lpPc, lpStop, lpTicks, lpConflicts, lpDecisions, lpTrace,
                   lpQueue, lpSent, lpPending, lpSubs, lpSubAt, lpRecv>>
    /\ UNCHANGED <<rsHist, rtVars, dVars, tkVars>>

\* The steps of the loop task
LoopTask ==
    \/ LoopWake
    \/ LoopDetect
    \/ LoopDecide
    \/ LoopApply
    \/ LoopAdvance
    \/ LoopPublish

LpNext ==
    \/ \E reg \in Seeds : Seed(reg)
    \/ LpStart
    \/ LpStop
    \/ LpStopReturn
    \/ LoopWake
    \/ LoopDetect
    \/ LoopDecide
    \/ LoopApply
    \/ LoopAdvance
    \/ LoopPublish
    \/ RunPendingPut
    \/ \E c \in Consumers : Subscribe(c)
    \/ \E c \in Consumers : Receive(c)
    \/ \E train_id \in TrainIds : LpPostDelay(train_id, 1)
    \/ LpPostReset

-----------------------------------------------------------------------------
(* start() and stop() of one simulation under every interleaving.  Each    *)
(* call of start() that finds _running false makes a new task of _loop and *)
(* overwrites _task; a task gives way only at its sleep, so one iteration  *)
(* of a task is one step.                                                  *)

TkInit ==
    /\ tkRunning = FALSE
    /\ tkTask = 0
    /\ tkPc = << >>
    /\ tkSince = << >>
    /\ tkWait = {}
    /\ tkOp = "init"

\* RailwaySimulation.start / AsyncSimulation.start
TkStart ==
    /\ tkRunning \/ Len(tkPc) < MaxTasks
    /\ IF tkRunning
       THEN UNCHANGED <<tkRunning, tkTask, tkPc, tkSince>>
       ELSE /\ tkRunning' = TRUE
            /\ tkPc' = Append(tkPc, "created")
            /\ tkTask' = Len(tkPc) + 1
            /\ tkSince' = [i \in 1..(Len(tkPc) + 1) |-> 0]
    /\ tkOp' = "start"
    /\ UNCHANGED tkWait
    /\ UNCHANGED <<rsVars, rtVars, dVars, lpVars>>

\* stop() up to its await: the flag is cleared and the caller waits for the
\* task in _task, when there is one that has not ended
TkStop ==
    /\ tkRunning' = FALSE
    /\ tkWait' = IF tkTask # 0 /\ tkPc[tkTask] # "done"
                 THEN tkWait \cup {tkTask}
                 ELSE tkWait
    /\ tkOp' = "stop"
    /\ UNCHANGED <<tkTask, tkPc, tkSince>>
    /\ UNCHANGED <<rsVars, rtVars, dVars, lpVars>>

\* asyncio.wait([task]) of a stop() returns once that task has ended
TkStopReturn(i) ==
    /\ i \in tkWait
    /\ tkPc[i] = "done"
    /\ tkWait' = tkWait \ {i}
    /\ tkOp' = "stop_return"
    /\ UNCHANGED <<tkRunning, tkTask, tkPc, tkSince>>
    /\ UNCHANGED <<rsVars, rtVars, dVars, lpVars>>

\* A task of _loop is run or resumed: the while test, then one iteration up
\* to the sleep, or the end of the task
TkIterate(i) ==
    /\ i \in 1..Len(tkPc)
    /\ tkPc[i] \in {"created", "sleep"}
    /\ tkRunning => tkSince[i] < MaxTaskTicks
    /\ IF tkRunning
       THEN /\ tkPc' = [tkPc EXCEPT ![i] = "sleep"]
            /\ tkSince' = [tkSince EXCEPT ![i] = @ + 1]
       ELSE /\ tkPc' = [tkPc EXCEPT ![i] = "done"]
            /\ UNCHANGED tkSince
    /\ tkOp' = "loop"
    /\ UNCHANGED <<tkRunning, tkTask, tkWait>>
    /\ UNCHANGED <<rsVars, rtVars, dVars, lpVars>>

TkNext ==
    \/ TkStart
    \/ TkStop
    \/ \E i \in 1..MaxTasks : TkStopReturn(i)
    \/ \E i \in 1..MaxTasks : TkIterate(i)

-----------------------------------------------------------------------------
(* Specifications *)

Init == RSInit /\ RtInit /\ DInit /\ LpInit /\ TkInit

\* The RailwaySimulation alone
Spec == Init /\ [][RSNext]_vars

\* The RailwaySimulation with the requests and reads of backend/main.py
SpecApi == Init /\ [][ApiNext]_vars

\* The AsyncSimulation and its Optimizer alone
SpecRT == Init /\ [][RtNext]_vars

\* The route-based Simulator alone
SpecDelhi == Init /\ [][DNext]_vars

\* The RailwaySimulation with trains registered first and ticks only after
SpecRoute == Init /\ [][RouteNext]_vars

\* The same with repeated ticks: _loop calls _step_one_minute again after
\* every sleep, so a tick that can be taken is taken
SpecRouteFair == SpecRoute /\ WF_vars(StepOneMinute)

\* The RailwaySimulation with calls of _apply_decisions and POST /reset
SpecCmd == Init /\ [][CmdNext]_vars

\* start() and stop() of one simulation under every interleaving
SpecTasks == Init /\ [][TkNext]_vars

\* The loop of the RailwaySimulation with its queue, consumers and requests
SpecLoop == Init /\ [][LpNext]_vars

\* The same, where the event loop runs every task that can run: the loop
\* task until it ends, and the caller of stop() once the task has ended
SpecLoopFair == SpecLoop /\ WF_vars(LoopTask) /\ WF_vars(LpStopReturn)

-----------------------------------------------------------------------------
(* Properties of the RailwaySimulation *)

\* Trains that are mid-traversal of edge e: running, on e, short of its end
MidTraversal(reg, e) ==
    { id \in DOMAIN reg :
        /\ reg[id].status = "running"
        /\ reg[id].current_edge = e
        /\ reg[id].position < Graph[e].length }

\* C1: after every _step_one_minute, every directed segment has at most one
\* train that is running on it with position below the segment's length.
C1_MutualExclusion ==
    rsOp = "tick" =>
        \A e \in DOMAIN Graph : Cardinality(MidTraversal(trains, e)) <= 1

\* Trains that _apply_decisions marked held in the last tick
MarkedHeld == { id \in DOMAIN rsPre : HeldBack(rsPre[id], id, rsDecisions) }

\* C2: a train that _apply_decisions marked held has, after the advance step
\* of the same tick, the current_edge and the position it had before the tick.
C2_HeldDoesNotAdvance ==
    rsOp = "tick" =>
        \A id \in MarkedHeld :
            /\ trains[id].current_edge = rsPre[id].current_edge
            /\ trains[id].position = rsPre[id].position

\* C3: for every conflict reported and decided in a tick, every contender but
\* the winner (also one that requests its first route segment) is set to held
\* by the decision and its delay_min grows by exactly 1 in that tick.
C3_LosersHeldAndDelayed ==
    rsOp = "tick" =>
        \A c \in rsConflicts :
            \A id \in c.trains \ {rsDecisions[EdgeKey(c.edge[1], c.edge[2])]} :
                /\ rsMid[id].status = "held"
                /\ trains[id].delay_min = rsPre[id].delay_min + 1

-----------------------------------------------------------------------------
(* Properties of the Optimizer and the AsyncSimulation *)

\* Two assignments of different trains on the same directed segment
SameSegment(a, b) == a.train_id # b.train_id /\ a.edge = b.edge

\* C4: in every plan that minimizes the objective, of two trains of different
\* priority class on the same segment the one of higher priority (lower
\* weight) starts no later than the other.
C4_PriorityOrder ==
    plan.status = "OPTIMAL" =>
        \A a \in plan.assignments, b \in plan.assignments :
            (SameSegment(a, b) /\ a.weight < b.weight) => a.start_ms <= b.start_ms

\* C5: in every plan returned from a feasible solve, the intervals
\* [start_ms, start_ms + duration_ms) of two different trains on the same
\* directed segment do not overlap.
C5_NoOverlap ==
    plan.status \in {"OPTIMAL", "FEASIBLE"} =>
        \A a \in plan.assignments, b \in plan.assignments :
            SameSegment(a, b) =>
                \/ a.start_ms + a.duration_ms <= b.start_ms
                \/ b.start_ms + b.duration_ms <= a.start_ms

\* A feasible, not necessarily optimal, plan with two trains on one segment
C5_Witness ==
    /\ plan.status = "FEASIBLE"
    /\ \E a \in plan.assignments, b \in plan.assignments :
           SameSegment(a, b) /\ a.start_ms > 0

\* C6: once a plan is computed, no train begins occupying a segment (its
\* position_edge becomes that segment) at a simulated time earlier than the
\* start the plan assigned to it for that segment.  The time of entry is
\* taken at the end of the step, the latest it can be, and the plan is one
\* the solver proved optimal.
C6_PlanEnforced ==
    [][ \A id \in DOMAIN rtTrains : \A a \in plan.assignments :
          ( /\ plan.status = "OPTIMAL"
            /\ a.train_id = id
            /\ rtTrains[id].position_edge # a.edge
            /\ rtTrains'[id].position_edge = a.edge )
          => rtNow' * TickMs >= planAt * TickMs + a.start_ms ]_vars

\* C7: a train that is on a segment when the plan is built has the start of
\* its interval at 0, the current time, in every plan the solver proved
\* optimal.
C7_UnderWayStartsNow ==
    plan.status = "OPTIMAL" =>
        \A a \in plan.assignments : a.under_way => a.start_ms = 0

\* C8: no registry reachable through add_train and inject_event and no
\* optimizer outcome ends the loop with an error: every iteration of _loop
\* reaches the put of its state snapshot.
C8_TickAlwaysCompletes == rtTask # "failed"

\* A reroute payload with at least two nodes whose first edge is not in the
\* network
FirstEdgeMissing(p) ==
    /\ p.kind = "list"
    /\ Len(p.nodes) >= 2
    /\ ~RtHasEdge(p.nodes[1], p.nodes[2])

\* C9: inject_event with a REROUTE of at least two nodes whose first edge
\* does not exist returns failure and leaves the train's path_nodes,
\* position_edge, position_m and status as they were.
C9_RerouteMissingEdgeRejected ==
    [][ ( /\ rtEvt'.type = "reroute"
          /\ rtEvt'.train_id \in DOMAIN rtTrains
          /\ FirstEdgeMissing(rtEvt'.path) )
        => /\ rtRet' = FALSE
           /\ LET old == rtTrains[rtEvt'.train_id]
                   new == rtTrains'[rtEvt'.train_id]
               IN /\ new.path_nodes = old.path_nodes
                  /\ new.position_edge = old.position_edge
                  /\ new.position_m = old.position_m
                  /\ new.status = old.status ]_vars

\* A reroute payload whose path is missing, is not a list, or has fewer than
\* two nodes
InvalidPath(p) == p.kind # "list" \/ Len(p.nodes) < 2

\* C10: inject_event with a REROUTE whose path is missing, not a list, or
\* shorter than two nodes returns False and changes no field of any train.
C10_InvalidRerouteRejected ==
    [][ (rtEvt'.type = "reroute" /\ InvalidPath(rtEvt'.path))
        => (rtRet' = FALSE /\ rtTrains' = rtTrains) ]_vars

\* Such a reroute, with two nodes in a tuple, was sent to a registered train
\* that is on a segment, and was answered False
C10_Witness ==
    /\ rtEvt.type = "reroute"
    /\ rtEvt.path.kind = "tuple"
    /\ Len(rtEvt.path.nodes) >= 2
    /\ rtEvt.train_id \in DOMAIN rtTrains
    /\ rtTrains[rtEvt.train_id].position_edge # NoEdge
    /\ rtRet = FALSE

-----------------------------------------------------------------------------
(* Commands at the boundary *)

\* C11: inject_event with a SPEED command whose speed_mps is zero or negative
\* returns failure and leaves the train's max_speed_mps as it was.
C11_NonPositiveSpeedRejected ==
    [][ ( /\ rtEvt'.type = "speed"
          /\ rtEvt'.speed_mps <= 0
          /\ rtEvt'.train_id \in DOMAIN rtTrains )
        => /\ rtRet' = FALSE
           /\ rtTrains'[rtEvt'.train_id].max_speed_mps
                  = rtTrains[rtEvt'.train_id].max_speed_mps ]_vars

\* A train as handed to add_train that the command boundary should refuse:
\* fewer than two nodes, a segment that is not in the network, or a speed
\* that is not positive
RtMalformed(t) ==
    \/ Len(t.path_nodes) < 2
    \/ \E i \in 1..(Len(t.path_nodes) - 1) :
          ~RtHasEdge(t.path_nodes[i], t.path_nodes[i + 1])
    \/ t.max_speed_mps <= 0

\* C12: add_train with a malformed train reports failure and leaves the
\* registry unchanged: no step registers such a train.
C12_MalformedTrainRejected ==
    [][ \A id \in DOMAIN rtTrains' \ DOMAIN rtTrains :
          ~RtMalformed(rtTrains'[id]) ]_vars

\* C13: the tick that follows a HOLD or BREAKDOWN applied to a train leaves
\* that train's position_m and position_edge unchanged and its speed at zero
\* (the first of the later ticks, before any REROUTE or SPEED can clear it).
C13_HaltedTrainStands ==
    [][ ( /\ rtEvt.type \in {"hold", "breakdown"}
          /\ rtEvt.train_id \in DOMAIN rtTrains
          /\ rtNow' = rtNow + 1 )
        => LET old == rtTrains[rtEvt.train_id]
               new == rtTrains'[rtEvt.train_id]
           IN /\ new.position_m = old.position_m
              /\ new.position_edge = old.position_edge
              /\ new.speed_mps = 0 ]_vars

-----------------------------------------------------------------------------
(* Degenerate geometry and missing segments in the RailwaySimulation *)

\* The segment that follows the train's current one on its route is in the
\* network
NextSegmentExists(t) ==
    LET idx == IndexOf(t.route, t.current_edge[1]) IN
    /\ idx >= 0
    /\ idx + 2 < Len(t.route)
    /\ HasEdge(t.route[idx + 2], t.route[idx + 3])

\* C14: a zero-length segment does not stall a train: after a tick no train
\* is left stopped on a segment of length 0 whose following route segment
\* exists.
C14_ZeroLengthDoesNotStall ==
    rsOp = "tick" =>
        \A id \in DOMAIN trains :
            LET t == trains[id] IN
            ( /\ t.current_edge # NoEdge
              /\ HasEdge(t.current_edge[1], t.current_edge[2])
              /\ EdgeLength(t.current_edge[1], t.current_edge[2]) = 0
              /\ NextSegmentExists(t) )
            => t.status # "stopped"

\* The train is at the end of its current segment (within the tolerance)
AtSegmentEnd(t) ==
    /\ t.current_edge # NoEdge
    /\ t.position >= EdgeLength(t.current_edge[1], t.current_edge[2]) - Eps

\* The train can move in a tick: its first segment, or its current one, has
\* a positive length and it is short of the end or has a segment to move on to
Movable(t) ==
    IF t.current_edge = NoEdge
    THEN /\ Len(t.route) >= 2
         /\ HasEdge(t.route[1], t.route[2])
         /\ EdgeLength(t.route[1], t.route[2]) > 0
    ELSE /\ EdgeLength(t.current_edge[1], t.current_edge[2]) > 0
         /\ \/ t.position < EdgeLength(t.current_edge[1], t.current_edge[2])
            \/ NextSegmentExists(t)

\* The tick moved the train: onto another segment or further along its own
Advanced(old, new) ==
    \/ new.current_edge # old.current_edge
    \/ new.position > old.position

\* The train came to the end of its segment in the last tick and the pair of
\* route nodes that follows is not a segment of the network
NextSegmentAbsent(id) ==
    /\ ~AtSegmentEnd(rsMid[id])
    /\ AtSegmentEnd(trains[id])
    /\ LET idx == IndexOf(trains[id].route, trains[id].current_edge[1]) IN
       /\ idx >= 0 /\ idx + 2 < Len(trains[id].route)
       /\ ~HasEdge(trains[id].route[idx + 2], trains[id].route[idx + 3])

\* C15: a tick leaves a train whose first segment is absent from the network
\* without a segment and stopped, leaves a train at the end of its segment
\* whose next segment is absent stopped, and still advances every other
\* train that can move.
C15_MissingSegmentStops ==
    rsOp = "tick" =>
        \A id \in DOMAIN trains :
            /\ trains[id].current_edge = NoEdge => trains[id].status = "stopped"
            /\ (AtSegmentEnd(trains[id]) /\ ~NextSegmentExists(trains[id]))
                  => trains[id].status = "stopped"
            /\ Movable(rsMid[id]) => Advanced(rsMid[id], trains[id])

\* A tick in which one train ran into an absent next segment and stopped
\* while another train advanced
C15_Witness ==
    /\ rsOp = "tick"
    /\ \E a \in DOMAIN trains, b \in DOMAIN trains :
          /\ a # b
          /\ NextSegmentAbsent(a)
          /\ trains[a].status = "stopped"
          /\ Movable(rsMid[b])
          /\ Advanced(rsMid[b], trains[b])

-----------------------------------------------------------------------------
(* Terminal stop, position bounds and progress in a tick *)

\* A tick has stopped the train at the end of a segment of positive length
\* because its route is exhausted or its next segment is not in the network
Terminal(t) ==
    /\ t.status = "stopped"
    /\ t.current_edge # NoEdge
    /\ EdgeLength(t.current_edge[1], t.current_edge[2]) > 0
    /\ AtSegmentEnd(t)
    /\ ~NextSegmentExists(t)

\* C16: stopped at route end is terminal: a tick leaves the current_edge,
\* position, delay_min and status of a train unchanged when an earlier tick
\* had stopped it because its route was exhausted or its next segment absent.
C16_StoppedAtEndIsTerminal ==
    rsOp = "tick" =>
        \A id \in DOMAIN rsPre :
            Terminal(rsPre[id]) =>
                /\ trains[id].current_edge = rsPre[id].current_edge
                /\ trains[id].position = rsPre[id].position
                /\ trains[id].delay_min = rsPre[id].delay_min
                /\ trains[id].status = rsPre[id].status

\* C17: position bounds: every train of the RailwaySimulation and of the
\* AsyncSimulation that has a current segment has a position between 0 and
\* the length of that segment.
C17_PositionBounds ==
    /\ \A id \in DOMAIN trains :
          trains[id].current_edge # NoEdge =>
              /\ 0 <= trains[id].position
              /\ trains[id].position
                    <= EdgeLength(trains[id].current_edge[1], trains[id].current_edge[2])
    /\ \A id \in DOMAIN rtTrains :
          rtTrains[id].position_edge # NoEdge =>
              /\ 0 <= rtTrains[id].position_m
              /\ rtTrains[id].position_m
                    <= RtEdgeLength(rtTrains[id].position_edge[1], rtTrains[id].position_edge[2])

\* C18: running invariant: every train whose status is running has a
\* current segment and a position strictly less than that segment's length,
\* in the RailwaySimulation and in the AsyncSimulation.
C18_RunningInvariant ==
    /\ \A id \in DOMAIN trains :
          trains[id].status = "running" =>
              /\ trains[id].current_edge # NoEdge
              /\ trains[id].position
                    < EdgeLength(trains[id].current_edge[1], trains[id].current_edge[2])
    /\ \A id \in DOMAIN rtTrains :
          rtTrains[id].status = "running" =>
              /\ rtTrains[id].position_edge # NoEdge
              /\ rtTrains[id].position_m
                    < RtEdgeLength(rtTrains[id].position_edge[1], rtTrains[id].position_edge[2])

\* The most a train of the RailwaySimulation may cover in a tick on segment
\* e: the lesser of its own speed and the segment's limit (km/h to m/s),
\* times the 60 simulated seconds of a tick, in millimetres
RsTickBound(t, e) ==
    LET limited == IF Graph[e].max_speed = <<>> THEN t.speed_mps
                   ELSE IF t.speed_mps * 36 <= Graph[e].max_speed[1] * 10
                        THEN t.speed_mps
                        ELSE (Graph[e].max_speed[1] * 10) \div 36
    IN limited * 60 * 1000

\* The same for a train of the AsyncSimulation and its tick of 0.5 s
RtTickBound(t, e) ==
    LET limited == IF RtGraph[e].max_speed = <<>> THEN t.max_speed_mps
                   ELSE IF t.max_speed_mps * 36 <= RtGraph[e].max_speed[1] * 10
                        THEN t.max_speed_mps
                        ELSE (RtGraph[e].max_speed[1] * 10) \div 36
    IN limited * 500

\* The segment a train is on when its movement in a tick begins: its current
\* one, or the first of its route when it has none yet
RsStartEdge(t) ==
    IF t.current_edge # NoEdge THEN t.current_edge
    ELSE IF Len(t.route) >= 2 THEN <<t.route[1], t.route[2]>> ELSE NoEdge

RtStartEdge(t) ==
    IF t.position_edge # NoEdge THEN t.position_edge
    ELSE IF Len(t.path_nodes) >= 2 THEN <<t.path_nodes[1], t.path_nodes[2]>> ELSE NoEdge

\* The last tick of the RailwaySimulation moved every train by no more than
\* its bound and put a train that changed segment at position 0
RsTickWithinSpeed ==
    rsOp = "tick" =>
        \A id \in DOMAIN trains :
            LET old == rsMid[id]
                new == trains[id]
                e == RsStartEdge(old)
            IN
            IF new.current_edge = NoEdge \/ ~HasEdge(e[1], e[2]) THEN TRUE
            ELSE IF new.current_edge = e
            THEN new.position - old.position <= RsTickBound(old, e)
            ELSE /\ new.position = 0
                 /\ Graph[e].length - old.position <= RsTickBound(old, e) + Eps

\* A tick of the AsyncSimulation does the same
RtTickWithinSpeed ==
    rtNow' = rtNow + 1 =>
        \A id \in DOMAIN rtTrains :
            LET old == rtTrains[id]
                new == rtTrains'[id]
                e == RtStartEdge(old)
            IN
            IF new.position_edge = NoEdge \/ ~RtHasEdge(e[1], e[2]) THEN TRUE
            ELSE IF new.position_edge = e
            THEN new.position_m - old.position_m <= RtTickBound(old, e)
            ELSE /\ new.position_m = 0
                 /\ RtGraph[e].length - old.position_m <= RtTickBound(old, e) + Eps

\* C19: no teleportation: in one tick a train advances along its segment by
\* no more than its effective speed (the lesser of its own speed and the
\* segment's limit) times the simulated seconds of the tick, and a train that
\* passes onto the next segment starts it at position 0: no distance is
\* carried over.
C19_NoTeleportation == [][RsTickWithinSpeed' /\ RtTickWithinSpeed]_vars

\* A tick in which a train came to the end of its segment with part of the
\* minute's progress left over and was put on the next segment at position 0,
\* and a tick in which the segment's limit, not the train's speed, bounded
\* the movement
C19_Witness ==
    /\ rsOp = "tick"
    /\ \E id \in DOMAIN trains :
          /\ rsMid[id].current_edge # NoEdge
          /\ trains[id].current_edge # rsMid[id].current_edge
          /\ trains[id].position = 0
          /\ rsMid[id].position + RsTickBound(rsMid[id], rsMid[id].current_edge)
                > EdgeLength(rsMid[id].current_edge[1], rsMid[id].current_edge[2])
    /\ \E id \in DOMAIN trains :
          /\ trains[id].current_edge # NoEdge
          /\ trains[id].current_edge = RsStartEdge(rsMid[id])
          /\ trains[id].position > rsMid[id].position
          /\ RsTickBound(rsMid[id], trains[id].current_edge)
                < rsMid[id].speed_mps * 60 * 1000

\* The last tick of the RailwaySimulation left every train that was not
\* held or delayed at least as far along its segment as it was, or on
\* another segment
RsTickForward ==
    rsOp = "tick" =>
        \A id \in DOMAIN trains :
            ( /\ rsMid[id].status \notin {"held", "delayed"}
              /\ trains[id].current_edge = rsMid[id].current_edge )
            => trains[id].position >= rsMid[id].position

\* C20: progress monotonicity: for every train that is not held or delayed,
\* its position after a tick is greater than or equal to its position before
\* the tick: the position along its segment in the RailwaySimulation, the
\* distance along its route in the route-based Simulator, which has no held
\* or delayed trains.
C20_ProgressMonotonic ==
    [][ /\ RsTickForward'
        /\ (dTickS > 0 /\ dTime' = dTime + dTickS) =>
              \A i \in DOMAIN dTrains : dTrains'[i].cur_s >= dTrains[i].cur_s ]_vars

-----------------------------------------------------------------------------
(* Delay, registry, snapshot and conflict detection *)

\* C21: accumulated delay is never negative: after any sequence of ticks,
\* resets and POST /delay requests with any integer delay_min, negative
\* ones included, every train's delay_min is at least 0.
C21_DelayNeverNegative ==
    \A id \in DOMAIN trains : trains[id].delay_min >= 0

\* A POST /delay with a negative delay_min was accepted for a registered
\* train
C21_Witness ==
    /\ rsOp = "delay"
    /\ rsReq.delay_min < 0
    /\ rsReq.train_id \in DOMAIN trains
    /\ rsOut.success

\* C22: a tick never removes or adds a train: the set of train identifiers
\* is the same before and after every operation other than add_train, also
\* when a train has completed its route.
C22_TickKeepsRegistry ==
    [][ rsOp' # "add_train" => DOMAIN trains' = DOMAIN trains ]_vars

\* A tick that found a train already stopped at the end of its route and
\* kept it
C22_Witness ==
    /\ rsOp = "tick"
    /\ \E id \in DOMAIN rsPre : Terminal(rsPre[id]) /\ id \in DOMAIN trains

Requests(t, e) ==
    IF t.current_edge = NoEdge
    THEN Len(t.route) >= 2 /\ e = <<t.route[1], t.route[2]>>
    ELSE /\ t.position >= EdgeLength(t.current_edge[1], t.current_edge[2]) - Eps
         /\ \E i \in 1..(Len(t.route) - 2) :
               /\ t.route[i] = t.current_edge[1]
               /\ \A j \in 1..(i - 1) : t.route[j] # t.current_edge[1]
               /\ e = <<t.route[i + 1], t.route[i + 2]>>

\* The trains that requested segment e when the last tick began
Requesters(e) == { id \in DOMAIN rsPre : Requests(rsPre[id], e) }

\* C24: _find_conflicts returns exactly the segments requested as next by
\* two or more distinct trains, each with all its requesters: no segment
\* with fewer than two is returned and none with two or more is omitted.
C24_ConflictsExact ==
    rsOp = "tick" =>
        /\ \A c \in rsConflicts :
              /\ c.edge \in DOMAIN Graph
              /\ c.trains = Requesters(c.edge)
              /\ Cardinality(c.trains) >= 2
        /\ \A e \in DOMAIN Graph :
              Cardinality(Requesters(e)) >= 2 => \E c \in rsConflicts : c.edge = e

\* A tick that found a conflict between a train without a segment, which
\* asked for its first one, and a train at the end of its segment
C24_Witness ==
    /\ rsOp = "tick"
    /\ \E c \in rsConflicts : \E a \in c.trains, b \in c.trains :
          /\ rsPre[a].current_edge = NoEdge
          /\ rsPre[b].current_edge # NoEdge

C26_Broadcast ==
    (Cardinality(lpSubs) >= 2 /\ lpQueue = << >> /\ lpPending = << >>) =>
        \A i \in 1..Len(lpSent) :
            (\A c \in lpSubs : i > lpSubAt[c]) =>
                \A c \in lpSubs : \E j \in 1..Len(lpRecv[c]) : lpRecv[c][j] = lpSent[i]

\* C27: a slow or absent consumer never blocks the loop: the put of the
\* state snapshot in _loop never waits, however many messages are unread.
C27_PublishNeverWaits == lpPc # "put_wait"

C27_Witness ==
    /\ lpSubs = {}
    /\ Len(lpQueue) >= 2
    /\ lpTicks >= 2
    /\ lpPc = "sleep"

\* The orders in which an iteration runs its steps: the decision and its
\* application are run when the detection found a conflict
IterationOrders ==
    { <<"detect", "decide", "apply", "advance", "publish">>,
      <<"detect", "advance", "publish">> }

StateMessages(msgs) == { i \in 1..Len(msgs) : msgs[i].type = "state" }

MidTick(pc) == pc \in {"decide", "apply", "advance"}

\* C29: external commands never interleave with a tick: a command takes
\* effect wholly before a tick's conflict detection or wholly after its
\* advance, never between the two.
C29_CommandsBetweenTicks ==
    [][ lpCmds' # lpCmds =>
            /\ ~MidTick(lpPc)
            /\ lpPc' = lpPc
            /\ lpTicks' = lpTicks ]_vars

C29_Witness ==
    /\ lpOp \in {"delay", "reset"}
    /\ lpPc = "sleep"
    /\ lpRunning
    /\ lpTicks = 1

\* C30: clean stop: after stop() on a running simulation, with no start()
\* meanwhile, the loop runs no further tick and ends, stop() returns, and no
\* tick is executed until start() is called again.
C30_CleanStop ==
    /\ [][ lpStop # "idle" =>
               /\ lpTicks' = lpTicks
               /\ lpPc' \in {lpPc, "created", "done"} ]_vars
    /\ (lpStop = "waiting") ~> (lpStop = "returned" /\ lpPc = "done")

C30_Witness ==
    /\ lpOp = "stop_return"
    /\ lpStop = "returned"
    /\ lpPc = "done"
    /\ ~lpRunning
    /\ lpTicks >= 1

\* Segment i of a route, one-based: (route[i], route[i + 1])
RouteSegment(route, i) == <<route[i], route[i + 1]>>

\* C31: trains follow their route in order: whenever a tick changes a
\* train's current segment away from the segment at route position i, the
\* new current segment is the one at route position i + 1, also when the
\* route visits the same node more than once.
C31_RouteOrder ==
    rsOp = "tick" =>
        \A id \in DOMAIN trains :
            LET old == rsPre[id].current_edge
                new == trains[id].current_edge
                route == trains[id].route
            IN (old # NoEdge /\ new # old) =>
                   \E i \in 1..(Len(route) - 2) :
                       /\ old = RouteSegment(route, i)
                       /\ new = RouteSegment(route, i + 1)

\* A train the claim is about: positive speed, a route of two nodes or more,
\* every segment of the route in the network with positive length
RouteRunnable(t) ==
    /\ t.speed_mps > 0
    /\ Len(t.route) >= 2
    /\ \A i \in 1..(Len(t.route) - 1) :
          /\ HasEdge(t.route[i], t.route[i + 1])
          /\ EdgeLength(t.route[i], t.route[i + 1]) > 0

\* The train stands at the end of the last segment of its route
ArrivedAtRouteEnd(t) ==
    /\ t.status = "stopped"
    /\ t.current_edge = RouteSegment(t.route, Len(t.route) - 1)
    /\ t.position = EdgeLength(t.current_edge[1], t.current_edge[2])

\* C32: every train reaches the end of its route: with repeated ticks and no
\* commands, every train with positive speed whose route segments all exist
\* with positive length is eventually stopped on the last segment of its
\* route at that segment's length.
C32_ReachesRouteEnd ==
    [](rsOp = "tick" =>
          <>(\A id \in DOMAIN trains :
                RouteRunnable(trains[id]) => ArrivedAtRouteEnd(trains[id])))

\* The place of a train's current segment on its route: 0 while the train
\* has no segment, else the first i with (route[i], route[i + 1]) the segment
RoutePosition(t) ==
    IF t.current_edge = NoEdge THEN 0
    ELSE IF \E i \in 1..(Len(t.route) - 1) : RouteSegment(t.route, i) = t.current_edge
    THEN CHOOSE i \in 1..(Len(t.route) - 1) :
            /\ RouteSegment(t.route, i) = t.current_edge
            /\ \A j \in 1..(i - 1) : RouteSegment(t.route, j) # t.current_edge
    ELSE 0

\* C33: no double advance: in a single tick a train's current segment
\* changes at most once: the train moves forward by at most one route
\* segment, also when the segment it enters has length zero or is shorter
\* than the distance the train covers in one tick.
C33_NoDoubleAdvance ==
    rsOp = "tick" =>
        \A id \in DOMAIN trains :
            RoutePosition(trains[id]) - RoutePosition(rsPre[id]) <= 1

Loser(t, id, decisions) ==
    /\ t.current_edge # NoEdge
    /\ \E k \in DOMAIN decisions :
          /\ decisions[k] # id
          /\ \E u \in Nodes, v \in Nodes : EdgeKey(u, v) = k /\ Requests(t, <<u, v>>)

C38_ResetClearsState ==
    rsOp = "post_reset" =>
        /\ DOMAIN trains = DOMAIN rsPre
        /\ \A id \in DOMAIN trains :
              /\ trains[id].position = 0
              /\ trains[id].current_edge = NoEdge
              /\ trains[id].delay_min = 0
              /\ trains[id].status = "stopped"
              /\ trains[id].type = rsPre[id].type
              /\ trains[id].speed_mps = rsPre[id].speed_mps
              /\ trains[id].priority = rsPre[id].priority
              /\ trains[id].route = rsPre[id].route
        /\ ResetRegistry(trains) = trains
        /\ rsRepeat => trains = rsPre

\* A reset of a registry with a train under way that has been delayed
C38_Witness ==
    /\ rsOp = "post_reset"
    /\ \E id \in DOMAIN rsPre :
          /\ rsPre[id].current_edge # NoEdge
          /\ rsPre[id].delay_min > 0
          /\ rsPre[id].status = "running"

\* The tasks of _loop that have executed a tick since the last start()
TickingTasks == { i \in 1..Len(tkPc) : tkSince[i] > 0 }

\* C36: at most one simulation loop runs: under every interleaving of
\* start() and stop(), also a start() while a stop() waits for the task, at
\* most one task of _loop executes ticks, and start() on a running
\* simulation creates no second task.
C36_OneLoop ==
    /\ [](Cardinality(TickingTasks) <= 1)
    /\ [][ (tkRunning /\ tkOp' = "start") => tkPc' = tkPc ]_vars

\* C37: message order within a tick: when a tick of the RailwaySimulation
\* resolves a conflict, the decisions message of that tick is placed on the
\* update queue before the state snapshot of the same tick.  Stated at the
\* put of the snapshot: the decisions of the tick are among the messages
\* sent, after the snapshot of the tick before.
C37_DecisionsBeforeState ==
    [][ (lpPc' = "sleep" /\ lpPc # "sleep" /\ lpConflicts' # {}) =>
            \E i \in 1..(Len(lpSent') - 1) :
                /\ lpSent'[i].type = "decisions"
                /\ lpSent'[i].data = lpDecisions'
                /\ \A j \in (i + 1)..(Len(lpSent') - 1) : lpSent'[j].type # "state" ]_vars

\* C39: in the route-based Simulator every train is eventually marked
\* finished: once a step has been taken after simulated time has passed the
\* train's end_s, or the train has reached the end of its route, finished is
\* true, and it stays true on every step after that.
C39_EventuallyFinished ==
    /\ [](\A i \in DOMAIN dTrains :
            \/ (dTickS > 0 /\ dTime - dTickS > dTrains[i].end_s)
            \/ (dTime > 0 /\ dTrains[i].cur_s >= RouteLength(dTrains[i].route))
            => dTrains[i].finished)
    /\ [][ \A i \in DOMAIN dTrains :
              dTrains[i].finished => dTrains'[i].finished ]_vars

====
